---- MODULE Spec2Model ----
(***************************************************************************)
(* JobSwipe (src/src/App.tsx): the swipe deck of the App component.        *)
(* The model follows the component's state hooks, its two effects and its  *)
(* event handlers.  Strings are tuples of one-character strings so that    *)
(* toLowerCase() and includes() are computed, not assumed.  A job is       *)
(* referred to by its position in DUMMY_JOBS (JavaScript arrays hold       *)
(* references to the same job objects).                                    *)
(***************************************************************************)
EXTENDS Integers, Sequences, FiniteSets, TLC

(***************************************************************************)
(* Bounds of the exploration (not program constants).                      *)
(***************************************************************************)
\* phase-2 timers that may be pending at the same time
MaxPending == 2
\* filter-input changes (toggle, drag, search, preference) in one run
MaxFilterChanges == 1

(***************************************************************************)
(* String helpers: String.prototype.toLowerCase / includes,                *)
(* Array.prototype.includes.                                               *)
(***************************************************************************)
UpperCase == <<"A","B","C","D","E","F","G","H","I","J","K","L","M","N","O","P","Q","R","S","T","U","V","W","X","Y","Z">>
LowerCase == <<"a","b","c","d","e","f","g","h","i","j","k","l","m","n","o","p","q","r","s","t","u","v","w","x","y","z">>

toLowerCaseChar(c) ==
  IF \E i \in 1..Len(UpperCase) : UpperCase[i] = c
  THEN LowerCase[CHOOSE i \in 1..Len(UpperCase) : UpperCase[i] = c]
  ELSE c

toLowerCase(s) == [i \in 1..Len(s) |-> toLowerCaseChar(s[i])]

\* s.includes(sub): sub occurs in s as a contiguous run of characters
includes(s, sub) ==
  \E i \in 0..(Len(s) - Len(sub)) : SubSeq(s, i + 1, i + Len(sub)) = sub

\* array.includes(x)
arrayIncludes(arr, x) == \E i \in 1..Len(arr) : arr[i] = x

(***************************************************************************)
(* DUMMY_JOBS (requirements, imageUrl and postedDate are only rendered,    *)
(* no handler or effect reads them).                                       *)
(***************************************************************************)
Job1 ==
  [id |-> 1,
   title |-> <<"S","e","n","i","o","r"," ","F","r","o","n","t","e","n","d"," ","D","e","v","e","l","o","p","e","r">>,
   company |-> <<"T","e","c","h","C","o","r","p"," ","I","n","c",".">>,
   location |-> <<"S","a","n"," ","F","r","a","n","c","i","s","c","o",","," ","C","A">>,
   type |-> <<"P","e","r","m","a","n","e","n","t">>,
   salary |-> <<"$","1","2","0",",","0","0","0"," ","-"," ","$","1","8","0",",","0","0","0">>,
   description |->
     <<"L","o","o","k","i","n","g"," ","f","o","r"," ","a","n"," ","e","x","p","e","r","i","e","n","c","e","d"," ","f","r","o","n","t","e","n","d"," ","d","e","v","e","l","o","p","e","r"," ","w","i","t","h"," ","R","e","a","c","t"," ","e","x","p","e","r","t","i","s","e"," ","t","o"," ","j","o","i","n"," ","o","u","r"," ","d","y","n","a","m","i","c"," ","t","e","a","m",".">>]

Job2 ==
  [id |-> 2,
   title |-> <<"U","X"," ","D","e","s","i","g","n"," ","I","n","t","e","r","n">>,
   company |-> <<"D","e","s","i","g","n"," ","S","t","u","d","i","o">>,
   location |-> <<"R","e","m","o","t","e">>,
   type |-> <<"I","n","t","e","r","n","s","h","i","p">>,
   salary |-> <<"$","3","0","/","h","o","u","r">>,
   description |->
     <<"J","o","i","n"," ","o","u","r"," ","c","r","e","a","t","i","v","e"," ","t","e","a","m"," ","t","o"," ","d","e","s","i","g","n"," ","b","e","a","u","t","i","f","u","l"," ","a","n","d"," ","i","n","t","u","i","t","i","v","e"," ","u","s","e","r"," ","e","x","p","e","r","i","e","n","c","e","s",".">>]

Job3 ==
  [id |-> 3,
   title |-> <<"P","r","o","d","u","c","t"," ","M","a","n","a","g","e","r">>,
   company |-> <<"S","t","a","r","t","u","p","X">>,
   location |-> <<"N","e","w"," ","Y","o","r","k",","," ","N","Y">>,
   type |-> <<"F","i","x","e","d","-","t","e","r","m">>,
   salary |-> <<"$","1","3","0",",","0","0","0"," ","-"," ","$","1","6","0",",","0","0","0">>,
   description |->
     <<"L","e","a","d"," ","p","r","o","d","u","c","t"," ","d","e","v","e","l","o","p","m","e","n","t"," ","a","n","d"," ","s","t","r","a","t","e","g","y"," ","f","o","r"," ","o","u","r"," ","g","r","o","w","i","n","g"," ","s","t","a","r","t","u","p",".">>]

Job4 ==
  [id |-> 4,
   title |-> <<"D","e","v","O","p","s"," ","E","n","g","i","n","e","e","r">>,
   company |-> <<"C","l","o","u","d","T","e","c","h"," ","S","o","l","u","t","i","o","n","s">>,
   location |-> <<"R","e","m","o","t","e">>,
   type |-> <<"P","e","r","m","a","n","e","n","t">>,
   salary |-> <<"$","1","4","0",",","0","0","0"," ","-"," ","$","1","9","0",",","0","0","0">>,
   description |->
     <<"J","o","i","n"," ","o","u","r"," ","i","n","f","r","a","s","t","r","u","c","t","u","r","e"," ","t","e","a","m"," ","t","o"," ","b","u","i","l","d"," ","a","n","d"," ","m","a","i","n","t","a","i","n"," ","s","c","a","l","a","b","l","e"," ","c","l","o","u","d"," ","s","o","l","u","t","i","o","n","s",".">>]

DUMMY_JOBS == <<Job1, Job2, Job3, Job4>>

\* the identifiers of the listing collection
JobIds == {DUMMY_JOBS[r].id : r \in 1..Len(DUMMY_JOBS)}

\* the characters of the strings that are part of the state: a criterion's
\* label and the search term are kept by name and spelled out here
chars ==
  ("Permanent" :> <<"P","e","r","m","a","n","e","n","t">>) @@
  ("Fixed-term" :> <<"F","i","x","e","d","-","t","e","r","m">>) @@
  ("Temporary" :> <<"T","e","m","p","o","r","a","r","y">>) @@
  ("Internship" :> <<"I","n","t","e","r","n","s","h","i","p">>) @@
  ("" :> <<>>) @@
  ("design" :> <<"d","e","s","i","g","n">>) @@
  ("TEAM" :> <<"T","E","A","M">>)

INITIAL_CRITERIA ==
  <<
     [id |-> "permanent", label |-> "Permanent", active |-> TRUE],
     [id |-> "fixed-term", label |-> "Fixed-term", active |-> TRUE],
     [id |-> "temporary", label |-> "Temporary", active |-> TRUE],
     [id |-> "internship", label |-> "Internship", active |-> TRUE]
  >>

CriteriaIds == {INITIAL_CRITERIA[i].id : i \in 1..Len(INITIAL_CRITERIA)}

\* INITIAL_PROFILE.jobPreferences.remoteOnly
INITIAL_REMOTE_ONLY == FALSE

\* the text the filter looks for in the salary field
RemoteWord == <<"R","e","m","o","t","e">>

\* search terms the user types in this exploration
EmptyTerm == ""
TermDesign == "design"
TermTeam == "TEAM"
\* every term some specification uses
AllTerms == {EmptyTerm, TermDesign, TermTeam}
SearchTerms == {EmptyTerm, TermDesign}

(***************************************************************************)
(* Filter effect, lines 190-208: the pure part.                            *)
(***************************************************************************)
\* line 193: c.label.toLowerCase(), evaluated once per label
lowerLabel ==
  [l \in {INITIAL_CRITERIA[i].label : i \in 1..Len(INITIAL_CRITERIA)} |->
     toLowerCase(chars[l])]

\* mutant of activeCriteriaTypes: the active flag is not looked at
allCriteriaTypes(crit) ==
  [i \in 1..Len(crit) |-> lowerLabel[crit[i].label]]

\* lines 191-193: criteria.filter(c => c.active).map(c => c.label.toLowerCase())
activeCriteriaTypes(crit) ==
  LET act == SelectSeq(crit, LAMBDA c : c.active)
  IN  IF act = <<>> THEN <<>>
      ELSE [i \in 1..Len(act) |-> lowerLabel[act[i].label]]

\* line 196: job.type.toLowerCase(), evaluated once per job
lowerType == [r \in 1..Len(DUMMY_JOBS) |-> toLowerCase(DUMMY_JOBS[r].type)]

\* mutant of matchesType: the criterion listed first alone decides
matchesTypeFirst(r, crit) ==
  crit # <<>> /\ crit[1].active /\ lowerLabel[crit[1].label] = lowerType[r]

\* line 196
matchesType(r, crit) == arrayIncludes(activeCriteriaTypes(crit), lowerType[r])

\* lines 197-199
matchesSearch(job, term) ==
  \/ includes(toLowerCase(job.title), toLowerCase(term))
  \/ includes(toLowerCase(job.company), toLowerCase(term))
  \/ includes(toLowerCase(job.description), toLowerCase(term))

\* lines 200-201: the salary text is searched for 'Remote', case-sensitively
matchesSalary(job, remote) ==
  IF includes(job.salary, RemoteWord) THEN TRUE
  ELSE IF remote THEN FALSE ELSE TRUE

\* the positions of DUMMY_JOBS, in order
JobRefs == <<1, 2, 3, 4>>

\* matchesSearch and matchesSalary of every job for every input of the
\* exploration, evaluated once (the values are those of the two operators)
searchTable ==
  [r \in 1..Len(DUMMY_JOBS) |->
     [t \in AllTerms |-> matchesSearch(DUMMY_JOBS[r], chars[t])]]

salaryTable ==
  [r \in 1..Len(DUMMY_JOBS) |->
     [b \in BOOLEAN |-> matchesSalary(DUMMY_JOBS[r], b)]]

\* mutant of filterJobs: the kept listings come out last first
filterJobsReversed(crit, term, remote) ==
  LET kept == SelectSeq(JobRefs, LAMBDA r :
                /\ matchesType(r, crit)
                /\ searchTable[r][term]
                /\ salaryTable[r][remote])
  IN  [i \in 1..Len(kept) |-> kept[Len(kept) + 1 - i]]

\* lines 195-204: DUMMY_JOBS.filter(...), as the sequence of kept positions
filterJobs(crit, term, remote) ==
  SelectSeq(JobRefs, LAMBDA r :
    /\ matchesType(r, crit)
    /\ searchTable[r][term]
    /\ salaryTable[r][remote])

(***************************************************************************)
(* Criteria list: toggleCriteria (253-259) and handleDragEnd (210-220).    *)
(***************************************************************************)
\* items.findIndex(item => item.id === id), 0-based, -1 when absent
findIndex(items, id) ==
  IF \E i \in 1..Len(items) : items[i].id = id
  THEN (CHOOSE i \in 1..Len(items) :
          /\ items[i].id = id
          /\ \A j \in 1..(i - 1) : items[j].id # id) - 1
  ELSE -1

\* Array.prototype.splice(start, 1) on a copy: the array without the element
\* at 0-based start; a negative start counts from the end
spliceOut(arr, start) ==
  LET n == Len(arr)
      s == IF start < 0 THEN (IF n + start < 0 THEN 0 ELSE n + start)
           ELSE (IF start > n THEN n ELSE start)
  IN  IF s >= n THEN arr
      ELSE SubSeq(arr, 1, s) \o SubSeq(arr, s + 2, n)

\* the element splice(start, 1) removes (index s + 1 here)
splicedIndex(arr, start) ==
  LET n == Len(arr)
  IN  IF start < 0 THEN (IF n + start < 0 THEN 1 ELSE n + start + 1)
      ELSE start + 1

\* Array.prototype.splice(start, 0, x): insert x at 0-based start
spliceIn(arr, start, x) ==
  LET n == Len(arr)
      s == IF start < 0 THEN (IF n + start < 0 THEN 0 ELSE n + start)
           ELSE (IF start > n THEN n ELSE start)
  IN  SubSeq(arr, 1, s) \o <<x>> \o SubSeq(arr, s + 1, n)

\* mutant of arrayMove: the two elements change places
arrayMoveSwap(items, from, to) ==
  IF from < 0 \/ to < 0 THEN items ELSE
  [i \in 1..Len(items) |->
     IF i = from + 1 THEN items[to + 1]
     ELSE IF i = to + 1 THEN items[from + 1]
     ELSE items[i]]

\* arrayMove of @dnd-kit/sortable (imported line 4, called line 217):
\*   newArray.splice(to < 0 ? newArray.length + to : to, 0,
\*                   newArray.splice(from, 1)[0])
\* the insertion position is computed before the removal
arrayMove(items, from, to) ==
  LET pos == IF to < 0 THEN Len(items) + to ELSE to
  IN  IF Len(items) = 0 THEN items
      ELSE spliceIn(spliceOut(items, from), pos,
                    items[splicedIndex(items, from)])

\* mutant of toggled: every flag is flipped
toggledAll(prev, id) ==
  [i \in 1..Len(prev) |-> [prev[i] EXCEPT !.active = ~prev[i].active]]

\* lines 254-258
toggled(prev, id) ==
  [i \in 1..Len(prev) |->
     IF prev[i].id = id THEN [prev[i] EXCEPT !.active = ~prev[i].active]
     ELSE prev[i]]

(***************************************************************************)
(* Swipe: the lines of handleSwipe (222-233) and handleRemoveSaved.        *)
(***************************************************************************)
\* filteredJobs[index] is undefined outside the array
NoJob == 0

\* array[index] for a 0-based index
elementAt(jobs, index) ==
  IF index + 1 \in 1..Len(jobs) THEN jobs[index + 1] ELSE NoJob

\* line 225
swipeAnimation(direction) ==
  IF direction = "left" THEN "swipe-left" ELSE "swipe-right"

\* mutant of addSaved: the id of the listing after the swiped one is stored
addSavedNext(prev, id) == prev \cup {id + 1}

\* mutant of addSaved: a second right swipe un-saves the listing
addSavedToggle(prev, id) == IF id \in prev THEN prev \ {id} ELSE prev \cup {id}

\* line 227: new Set([...prev, id])
addSaved(prev, id) == prev \cup {id}

\* line 230: (prev + 1) % filteredJobs.length, the length the closure holds
advance(prev, jobs) == (prev + 1) % Len(jobs)

\* mutant of setTimeout: the callback is never scheduled
setTimeoutDropped(pending, callback) == pending

\* mutant of setTimeout: the earlier callback is cleared, the latest call wins
setTimeoutLatestWins(pending, callback) == <<callback>>

\* line 229: setTimeout(callback, 300); equal delays fire in creation order,
\* so the pending callbacks form a queue
setTimeout(pending, callback) == Append(pending, callback)

\* mutant of deleteSaved: the Saved Set is emptied
deleteSavedAll(prev, jobId) == {}

\* lines 246-250
deleteSaved(prev, jobId) == prev \ {jobId}

\* mutant of indexAfterFilter: the index survives the filter run
indexKept(prev) == prev

\* line 207: setCurrentJobIndex(0), whatever the index was
indexAfterFilter(prev) == 0

(***************************************************************************)
(* State of the App component (lines 159-168) and of its environment.      *)
(***************************************************************************)
VARIABLES
  currentJobIndex,  \* useState(0), line 159
  animation,        \* "null", "swipe-left" or "swipe-right", line 160
  savedJobs,        \* Set<number>, line 161
  remoteOnly,       \* profile.jobPreferences.remoteOnly, line 165
  criteria,         \* SearchCriteria[], line 166
  searchTerm,       \* line 167
  filteredJobs,     \* line 168, positions of DUMMY_JOBS
  timers,           \* pending setTimeout callbacks of line 229, oldest first;
                    \* each holds the filteredJobs of the closure that made it
  keyHandler,       \* the closure the keydown listener holds (lines 177-188)
  mounted,          \* FALSE once a render has thrown and React removed the tree
  changes,          \* history: number of filter-input changes so far,
                    \* or Uncounted
  last,             \* history: the operation that produced this state
  acceptedIds,      \* history: ids of the listings on display when the user
                    \* swiped right, minus those removed since
  swiped,           \* history: listings that were the current item of a
                    \* swipe that ran phase 1, since the last filter run
  cycle             \* history: the run of swipes started from an idle deck

vars == <<currentJobIndex, animation, savedJobs, remoteOnly, criteria,
          searchTerm, filteredJobs, timers, keyHandler, mounted, changes, last,
          acceptedIds, swiped, cycle>>

history == <<acceptedIds, swiped, cycle>>

\* line 261
currentJob == elementAt(filteredJobs, currentJobIndex)

\* the closure of the latest render: what an onClick handler sees
renderClosure ==
  [filteredJobs |-> filteredJobs, currentJobIndex |-> currentJobIndex]

\* lines 177-188: the effect depends on [currentJobIndex] only, so the
\* listener is replaced by one holding the new render's values exactly when
\* a render commits a different index
keyEffect(jobs, index) ==
  IF index # currentJobIndex
  THEN [filteredJobs |-> jobs, currentJobIndex |-> index]
  ELSE keyHandler

\* no run of swipes is being counted
NoCycle == [start |-> 0, count |-> 0]

\* the id of the listing on display, as a set (empty when there is none)
shownId == IF currentJob = NoJob THEN {} ELSE {DUMMY_JOBS[currentJob].id}

\* history kept by a swipe call: the accept gesture is on the listing on
\* display, whatever the handler's closure holds
gesture(direction) ==
  acceptedIds' = IF direction = "right" THEN acceptedIds \cup shownId
                 ELSE acceptedIds

\* history kept by a swipe that ran phase 1: a run starts at an idle deck
\* showing a job and counts up to the length of the sequence
counted ==
  /\ swiped' = swiped \cup (IF currentJob = NoJob THEN {} ELSE {currentJob})
  /\ cycle' = IF cycle.count \in 1..(Len(filteredJobs) - 1)
               THEN [cycle EXCEPT !.count = cycle.count + 1]
               ELSE IF timers = <<>> /\ currentJob # NoJob
               THEN [start |-> currentJobIndex, count |-> 1]
               ELSE NoCycle

\* the component after its first render and effects
Mount ==
  /\ currentJobIndex = 0
  /\ animation = "null"
  /\ savedJobs = {}
  /\ remoteOnly = INITIAL_REMOTE_ONLY
  /\ criteria = INITIAL_CRITERIA
  /\ searchTerm = EmptyTerm
     \* the mount runs the filter effect once (line 206)
  /\ filteredJobs = filterJobs(INITIAL_CRITERIA, EmptyTerm, INITIAL_REMOTE_ONLY)
     \* the listener of the first render: useState(DUMMY_JOBS), index 0
  /\ keyHandler = [filteredJobs |-> JobRefs, currentJobIndex |-> 0]
  /\ timers = <<>>
  /\ mounted = TRUE
  /\ last = [op |-> "init"]
  /\ acceptedIds = {}
  /\ swiped = {}
  /\ cycle = NoCycle

Init ==
  /\ Mount
  /\ changes = 0

\* mutant of handleSwipe: the index advances in the call itself
handleSwipeAdvancing(c, direction) ==
  LET item == elementAt(c.filteredJobs, c.currentJobIndex)
      call == [op |-> "swipe", direction |-> direction,
               accepted |-> Len(c.filteredJobs) # 0,
               wasSaved |-> item # NoJob /\ DUMMY_JOBS[item].id \in savedJobs]
  IN
  /\ mounted
  /\ IF Len(c.filteredJobs) = 0
     THEN /\ last' = call
          /\ gesture(direction)
          /\ UNCHANGED <<currentJobIndex, animation, savedJobs, remoteOnly,
                         criteria, searchTerm, filteredJobs, timers,
                         keyHandler, mounted, changes>>
     ELSE IF direction = "right" /\ item = NoJob
     THEN /\ mounted' = FALSE
          /\ last' = call
          /\ UNCHANGED <<currentJobIndex, animation, savedJobs, remoteOnly,
                         criteria, searchTerm, filteredJobs, timers,
                         keyHandler, changes, acceptedIds>>
     ELSE /\ Len(timers) < MaxPending
          /\ animation' = swipeAnimation(direction)
          /\ savedJobs' = IF direction = "right"
                          THEN addSaved(savedJobs, DUMMY_JOBS[item].id)
                          ELSE savedJobs
          /\ timers' = setTimeout(timers, [filteredJobs |-> c.filteredJobs,
                                           stale |-> FALSE])
          /\ currentJobIndex' = advance(currentJobIndex, c.filteredJobs)
          /\ last' = call
          /\ gesture(direction)
          /\ UNCHANGED <<remoteOnly, criteria, searchTerm,
                         filteredJobs, keyHandler, mounted, changes>>

(***************************************************************************)
(* handleSwipe, lines 222-233, run with the values of closure c.           *)
(***************************************************************************)
handleSwipe(c, direction) ==
  LET item == elementAt(c.filteredJobs, c.currentJobIndex)
      call == [op |-> "swipe", direction |-> direction,
               accepted |-> Len(c.filteredJobs) # 0,
               wasSaved |-> item # NoJob /\ DUMMY_JOBS[item].id \in savedJobs]
  IN
  /\ mounted
  /\ IF Len(c.filteredJobs) = 0
     THEN \* line 223
          /\ last' = call
          /\ gesture(direction)
          /\ UNCHANGED <<currentJobIndex, animation, savedJobs, remoteOnly,
                         criteria, searchTerm, filteredJobs, timers,
                         keyHandler, mounted, changes>>
     ELSE IF direction = "right" /\ item = NoJob
     THEN \* line 227: the updater reads .id of undefined; the render that
          \* runs it throws and the component tree is removed
          /\ mounted' = FALSE
          /\ last' = call
          /\ UNCHANGED <<currentJobIndex, animation, savedJobs, remoteOnly,
                         criteria, searchTerm, filteredJobs, timers,
                         keyHandler, changes, acceptedIds>>
     ELSE /\ Len(timers) < MaxPending
          /\ animation' = swipeAnimation(direction)
          /\ savedJobs' = IF direction = "right"
                          THEN addSaved(savedJobs, DUMMY_JOBS[item].id)
                          ELSE savedJobs
          /\ timers' = setTimeout(timers, [filteredJobs |-> c.filteredJobs,
                                           stale |-> FALSE])
          /\ last' = call
          /\ gesture(direction)
          /\ UNCHANGED <<currentJobIndex, remoteOnly, criteria, searchTerm,
                         filteredJobs, keyHandler, mounted, changes>>

\* lines 574-587: the buttons exist only while a job card is rendered
\* (line 565), and rendering the card needs currentJob (line 570)
SwipeButton(direction) ==
  /\ currentJob # NoJob
  /\ handleSwipe(renderClosure, direction)
  /\ UNCHANGED <<swiped, cycle>>

\* lines 178-184: ArrowLeft / ArrowRight run the handleSwipe of the render
\* in which the listener was registered
SwipeKey(direction) ==
  /\ handleSwipe(keyHandler, direction)
  /\ UNCHANGED <<swiped, cycle>>

\* the same two routes, with the run of swipes recorded
CountedSwipeButton(direction) ==
  /\ currentJob # NoJob
  /\ handleSwipe(renderClosure, direction)
  /\ IF last'.accepted /\ mounted' THEN counted ELSE UNCHANGED <<swiped, cycle>>

CountedSwipeKey(direction) ==
  /\ handleSwipe(keyHandler, direction)
  /\ IF last'.accepted /\ mounted' THEN counted ELSE UNCHANGED <<swiped, cycle>>

\* lines 229-232: the oldest pending callback runs
TimerFires ==
  /\ mounted
  /\ timers # <<>>
  /\ LET t == Head(timers)
         next == advance(currentJobIndex, t.filteredJobs)
     IN  /\ currentJobIndex' = next
         /\ animation' = "null"
         /\ timers' = Tail(timers)
         /\ keyHandler' = keyEffect(filteredJobs, next)
         /\ last' = [op |-> "timer", stale |-> t.stale,
                     moved |-> next # currentJobIndex]
  /\ UNCHANGED <<savedJobs, remoteOnly, criteria, searchTerm, filteredJobs,
                 mounted, changes, history>>

\* lines 245-251
RemoveSaved(jobId) ==
  /\ mounted
  /\ savedJobs' = deleteSaved(savedJobs, jobId)
  /\ last' = [op |-> "remove", wasSaved |-> jobId \in savedJobs]
  /\ acceptedIds' = acceptedIds \ {jobId}
  /\ UNCHANGED <<currentJobIndex, animation, remoteOnly, criteria, searchTerm,
                 filteredJobs, timers, keyHandler, mounted, changes,
                 swiped, cycle>>

(***************************************************************************)
(* Filter effect, lines 190-208: runs after a render in which criteria,    *)
(* searchTerm or profile.jobPreferences is a new value.                    *)
(***************************************************************************)
\* value of changes in the specification that does not count them
Uncounted == 0 - 1

markStale(pending) ==
  IF pending = <<>> THEN <<>>
  ELSE [i \in 1..Len(pending) |-> [pending[i] EXCEPT !.stale = TRUE]]

filterEffect(crit, term, remote) ==
  LET filtered == filterJobs(crit, term, remote)
      index == indexAfterFilter(currentJobIndex)
  IN
  /\ mounted
  /\ changes = Uncounted \/ changes < MaxFilterChanges
  /\ filteredJobs' = filtered
  /\ currentJobIndex' = index
  /\ keyHandler' = keyEffect(filtered, index)
  /\ timers' = markStale(timers)
  /\ changes' = IF changes = Uncounted THEN Uncounted ELSE changes + 1
  /\ last' = [op |-> "filter", moved |-> currentJobIndex # 0,
              pending |-> timers # <<>>]
  /\ swiped' = {}
  /\ cycle' = NoCycle
  /\ UNCHANGED <<animation, savedJobs, mounted, acceptedIds>>

\* lines 253-259, button of line 469
ToggleCriteria(id) ==
  /\ criteria' = toggled(criteria, id)
  /\ UNCHANGED <<searchTerm, remoteOnly>>
  /\ filterEffect(criteria', searchTerm, remoteOnly)

\* event.over of a drag that ends over no droppable (over is Over | null)
NoOver == "null"

\* lines 210-220
HandleDragEnd(activeId, overId) ==
  IF overId = NoOver
  THEN \* line 213: over.id of null is a TypeError thrown by the handler
       /\ mounted
       /\ last' = [op |-> "drag", fault |-> TRUE]
       /\ UNCHANGED <<currentJobIndex, animation, savedJobs, remoteOnly,
                      criteria, searchTerm, filteredJobs, timers, keyHandler,
                      mounted, changes, history>>
  ELSE IF activeId = overId
  THEN \* line 213: nothing is set
       /\ mounted
       /\ last' = [op |-> "drag", fault |-> FALSE]
       /\ UNCHANGED <<currentJobIndex, animation, savedJobs, remoteOnly,
                      criteria, searchTerm, filteredJobs, timers, keyHandler,
                      mounted, changes, history>>
  ELSE /\ criteria' = arrayMove(criteria, findIndex(criteria, activeId),
                                findIndex(criteria, overId))
       /\ UNCHANGED <<searchTerm, remoteOnly>>
       /\ filterEffect(criteria', searchTerm, remoteOnly)

\* line 445: onChange fires with a different text
SetSearchTerm(term) ==
  /\ term # searchTerm
  /\ searchTerm' = term
  /\ UNCHANGED <<criteria, remoteOnly>>
  /\ filterEffect(criteria, term, remoteOnly)

\* lines 416-426: the checkbox
SetRemoteOnly ==
  /\ remoteOnly' = ~remoteOnly
  /\ UNCHANGED <<criteria, searchTerm>>
  /\ filterEffect(criteria, searchTerm, remoteOnly')

\* lines 385-412: minSalary / maxDistance build a new jobPreferences object;
\* no code reads the two numbers, so only the effect they trigger is kept
SetNumberPreference ==
  /\ UNCHANGED <<criteria, searchTerm, remoteOnly>>
  /\ filterEffect(criteria, searchTerm, remoteOnly)

Directions == {"left", "right"}

\* the pair the user drags in this exploration
DragIds == {"fixed-term", "internship"}

Next ==
  \/ \E d \in Directions : SwipeButton(d)
  \/ \E d \in Directions : SwipeKey(d)
  \/ TimerFires
  \/ \E j \in JobIds : RemoveSaved(j)
  \/ \E id \in CriteriaIds : ToggleCriteria(id)
  \/ \E a \in DragIds : \E o \in DragIds \ {a} : HandleDragEnd(a, o)
  \/ \E t \in SearchTerms : SetSearchTerm(t)
  \/ SetRemoteOnly
  \/ SetNumberPreference

Spec == Init /\ [][Next]_vars

\* the deck alone: swipes are counted, the filter inputs that change are
\* the search term and the internship criterion
NextRun ==
  \/ \E d \in Directions : CountedSwipeButton(d)
  \/ \E d \in Directions : CountedSwipeKey(d)
  \/ TimerFires
  \/ ToggleCriteria("internship")
  \/ \E t \in SearchTerms : SetSearchTerm(t)

SpecRun == Init /\ [][NextRun]_vars

\* the browser runs every timer whose delay has passed (line 229)
SpecFair == Init /\ [][Next]_vars /\ WF_vars(TimerFires)

\* the settings view alone: every criterion toggled, every pair dragged
\* (also an id that is no criterion, and a drop over nothing), every search
\* term, the remote-only box; filter changes are not counted
InitCriteria ==
  /\ Mount
  /\ changes = Uncounted

UnknownId == "unknown"

NextCriteria ==
  \/ \E id \in CriteriaIds \cup {UnknownId} : ToggleCriteria(id)
  \/ \E a \in CriteriaIds \cup {UnknownId},
        o \in CriteriaIds \cup {UnknownId, NoOver} : HandleDragEnd(a, o)
  \/ \E t \in AllTerms : SetSearchTerm(t)
  \/ SetRemoteOnly

SpecCriteria == InitCriteria /\ [][NextCriteria]_vars

TypeOK ==
  /\ currentJobIndex \in 0..Len(DUMMY_JOBS)
  /\ animation \in {"null", "swipe-left", "swipe-right"}
  /\ savedJobs \subseteq JobIds
  /\ Len(timers) <= MaxPending

(***************************************************************************)
(* Properties.                                                             *)
(***************************************************************************)
\* C1: in every reachable state the filtered sequence is empty or the
\* current index is a position of it, 0 <= index < length
C1_IndexValid ==
  Len(filteredJobs) = 0 \/ currentJobIndex \in 0..(Len(filteredJobs) - 1)

\* C2: when a timer fires whose swipe came before a filter-input change,
\* its advance is a no-op and the current index stays 0
C2_ResetTakesPrecedence ==
  (last.op = "timer" /\ last.stale) => (~last.moved /\ currentJobIndex = 0)

\* C3: a swipe by button or key while the filtered sequence is empty changes
\* neither the Saved Set, the index nor the marker, and schedules no timer
C3_SwipeOnEmptyIsNoOp ==
  [][(last'.op = "swipe" /\ Len(filteredJobs) = 0)
       => UNCHANGED <<savedJobs, currentJobIndex, animation, timers>>]_vars

\* C4: right after a swipe on a non-empty filtered sequence the marker is
\* the one of the direction and, for a right swipe, the Saved Set has gained
\* the id of the job at the current index of the current sequence, no other
C4_PhaseOneOnShownJob ==
  [][(last'.op = "swipe" /\ Len(filteredJobs) > 0)
       => /\ animation' = swipeAnimation(last'.direction)
          /\ last'.direction = "right"
               => /\ currentJob # NoJob
                  /\ savedJobs' = savedJobs \cup shownId]_vars

\* C5: with the filter inputs unchanged, a timer moves the cursor off a
\* listing only if some swipe ran phase 1 with that listing as current item
C5_NoListingSkipped ==
  [][(last'.op = "timer" /\ ~last'.stale /\ currentJob # NoJob
        /\ currentJobIndex' # currentJobIndex)
       => currentJob \in swiped]_vars

C7_SavedIffAccepted == savedJobs = acceptedIds

\* C8: right after the filter effect has run, for whatever cause, the
\* current index is 0
C8_ResetOnFilterChange == last.op = "filter" => currentJobIndex = 0

\* C8 witness: the filter ran with the index off 0 and a transition pending
C8_Witness ==
  /\ last.op = "filter"
  /\ last.moved
  /\ last.pending
  /\ currentJobIndex = 0

\* C9: N swipes started from an idle deck of N jobs, with no filter change
\* meanwhile, leave the cursor where it started once their timers have fired
C9_Wraparound ==
  (cycle.count >= 1 /\ cycle.count = Len(filteredJobs) /\ timers = <<>>)
    => currentJobIndex = cycle.start

\* C10: a right swipe on a listing whose id is already saved leaves the
\* Saved Set as it was
C10_SaveIdempotent ==
  [][(last'.op = "swipe" /\ last'.direction = "right" /\ last'.wasSaved)
       => savedJobs' = savedJobs]_vars

\* C10 witness: a right swipe on a saved listing has run its phase 1
C10_Witness ==
  /\ last.op = "swipe"
  /\ last.direction = "right"
  /\ last.accepted
  /\ last.wasSaved
  /\ mounted
  /\ Cardinality(savedJobs) = 1

\* C11: removeSaved(id) leaves the Saved Set without id and with every other
\* member kept; when id was absent the set is unchanged
C11_RemoveIsSetMinus ==
  [][\A j \in JobIds :
       RemoveSaved(j)
         => /\ j \notin savedJobs'
            /\ \A k \in JobIds \ {j} : (k \in savedJobs') <=> (k \in savedJobs)
            /\ (j \notin savedJobs => savedJobs' = savedJobs)]_vars

\* C11 witness: a saved id has been removed and another member is still there
C11_Witness ==
  /\ last.op = "remove"
  /\ last.wasSaved
  /\ savedJobs # {}

\* the identifiers of a criteria list, in its order
idsOf(items) == [i \in 1..Len(items) |-> items[i].id]

\* C12: for two distinct identifiers of the criteria list, move(id, reference)
\* keeps the length and the identifier set, puts id immediately next to
\* reference, keeps every criterion's active flag and label, and keeps the
\* relative order of all criteria other than id
C12_MoveRelocatesOne ==
  [][\A a \in CriteriaIds : \A o \in CriteriaIds \ {a} :
       HandleDragEnd(a, o)
         => /\ Len(criteria') = Len(criteria)
            /\ {criteria'[i].id : i \in 1..Len(criteria')}
                 = {criteria[i].id : i \in 1..Len(criteria)}
            /\ findIndex(criteria', a) - findIndex(criteria', o) \in {0 - 1, 1}
            /\ \A i \in 1..Len(criteria') :
                 criteria'[i] = criteria[findIndex(criteria, criteria'[i].id) + 1]
            /\ \A x \in CriteriaIds \ {a} : \A y \in CriteriaIds \ {a} :
                 (findIndex(criteria', x) < findIndex(criteria', y))
                   <=> (findIndex(criteria, x) < findIndex(criteria, y))]_vars

\* C12 witness: a criterion has been moved over two others, and a flag that
\* was switched off before is still off
C12_Witness ==
  /\ last.op = "filter"
  /\ idsOf(criteria) = <<"fixed-term", "temporary", "permanent", "internship">>
  /\ \E i \in 1..Len(criteria) : ~criteria[i].active

\* C13: move(id, reference) leaves the criteria list as it was and raises no
\* fault when id equals reference, when id is not in the list, or when
\* reference is not in the list or is missing
C13_MoveNoOpOutsideDomain ==
  [][\A a \in CriteriaIds \cup {UnknownId} :
       \A o \in CriteriaIds \cup {UnknownId, NoOver} :
         (/\ \/ a = o
             \/ a \notin CriteriaIds
             \/ o \notin CriteriaIds
          /\ HandleDragEnd(a, o))
           => /\ criteria' = criteria
              /\ ~(last'.op = "drag" /\ last'.fault)]_vars

\* C14: toggle(id) flips the active flag of exactly the criterion with that
\* identifier; order, length, identifiers, labels and every other flag stay,
\* and with an absent id the list is unchanged
C14_ToggleFlipsOne ==
  [][\A id \in CriteriaIds \cup {UnknownId} :
       ToggleCriteria(id)
         => /\ Len(criteria') = Len(criteria)
            /\ \A i \in 1..Len(criteria) :
                 /\ criteria'[i].id = criteria[i].id
                 /\ criteria'[i].label = criteria[i].label
                 /\ criteria'[i].active
                      = IF criteria[i].id = id THEN ~criteria[i].active
                        ELSE criteria[i].active
            /\ (\A i \in 1..Len(criteria) : criteria[i].id # id)
                 => criteria' = criteria]_vars

\* C14 witness: after a toggle exactly one flag of the initial list is off
C14_Witness ==
  /\ last.op = "filter"
  /\ idsOf(criteria) = idsOf(INITIAL_CRITERIA)
  /\ \E i \in 1..Len(criteria) :
       /\ ~criteria[i].active
       /\ \A j \in 1..Len(criteria) : j # i => criteria[j].active

\* the listings whose employment kind is, but for letter case, the label of an
\* active criterion
kindActive ==
  {r \in 1..Len(DUMMY_JOBS) :
     \E i \in 1..Len(criteria) :
       /\ criteria[i].active
       /\ toLowerCase(DUMMY_JOBS[r].type) = toLowerCase(chars[criteria[i].label])}

\* C15: with an empty search term and remote-only off the filtered sequence
\* holds exactly the listings whose employment kind equals, case-insensitively,
\* the label of an active criterion (none when no criterion is active)
C15_TypeFilter ==
  (searchTerm = EmptyTerm /\ ~remoteOnly)
    => /\ {filteredJobs[i] : i \in 1..Len(filteredJobs)} = kindActive
       /\ ((\A i \in 1..Len(criteria) : ~criteria[i].active)
             => filteredJobs = <<>>)

\* C15 witness: Internship alone has been switched off and the filtered
\* sequence is the three other listings
C15_Witness ==
  /\ last.op = "filter"
  /\ searchTerm = EmptyTerm
  /\ ~remoteOnly
  /\ \A i \in 1..Len(criteria) :
       criteria[i].active <=> criteria[i].id # "internship"
  /\ filteredJobs = <<1, 3, 4>>

\* the listings whose location or compensation text names a remote arrangement
indicatesRemote ==
  {r \in 1..Len(DUMMY_JOBS) :
     \/ includes(DUMMY_JOBS[r].location, RemoteWord)
     \/ includes(DUMMY_JOBS[r].salary, RemoteWord)}

\* C16: a listing passes the remote filter iff remote-only is off or its
\* location or compensation text indicates a remote arrangement; with
\* remote-only on the listings located Remote stay in the filtered sequence
C16_RemoteFilter ==
  searchTerm = EmptyTerm
    => {filteredJobs[i] : i \in 1..Len(filteredJobs)}
         = {r \in kindActive : ~remoteOnly \/ r \in indicatesRemote}

\* C17: whatever the active criteria, the search term and the remote-only
\* flag, the filtered sequence is a subsequence of the listing collection:
\* its elements are listings of the collection, none twice, in the
\* collection's order
C17_Subsequence ==
  /\ \A i \in 1..Len(filteredJobs) : filteredJobs[i] \in 1..Len(DUMMY_JOBS)
  /\ \A i \in 1..Len(filteredJobs) : \A j \in 1..Len(filteredJobs) :
       i < j => filteredJobs[i] < filteredJobs[j]

\* C17 witness: a filter run with a search term kept some listings, not all
C17_Witness ==
  /\ last.op = "filter"
  /\ searchTerm # EmptyTerm
  /\ Len(filteredJobs) >= 2
  /\ Len(filteredJobs) < Len(DUMMY_JOBS)

\* C18: with timers firing fairly, a transition marker that a swipe has set is
\* eventually followed by a state in which the marker is none
C18_MarkerReturnsToNone ==
  (animation # "null") ~> (animation = "null")

\* C19: the filtered sequence does not depend on the order of the criteria:
\* move(id, reference) leaves it equal by value to what it was before
C19_OrderIrrelevant ==
  [][\A a \in CriteriaIds : \A o \in CriteriaIds \ {a} :
       HandleDragEnd(a, o) => filteredJobs' = filteredJobs]_vars

\* C19 witness: a move has changed the order of the criteria while one of them
\* is inactive and the filtered sequence holds some listings, not all
C19_Witness ==
  /\ last.op = "filter"
  /\ idsOf(criteria) = <<"internship", "permanent", "fixed-term", "temporary">>
  /\ ~criteria[2].active
  /\ filteredJobs # <<>>

\* C20: whenever the transition marker is not none, at least one phase-2 timer
\* is pending
C20_MarkerHasTimer ==
  animation # "null" => timers # <<>>

\* C20 witness: a swipe has set the marker and its timer is pending
C20_Witness ==
  /\ last.op = "swipe"
  /\ last.accepted
  /\ animation # "null"
  /\ timers # <<>>

\* C21: the current index changes only in a timer firing or in a filter
\* recomputation; a swipe call and removeSaved leave the current index and
\* the filtered sequence, hence the current item, as they were (every step
\* records its operation in last)
C21_IndexFrame ==
  [][/\ currentJobIndex' # currentJobIndex
          => last'.op \in {"timer", "filter"}
     /\ last'.op \in {"swipe", "remove"}
          => /\ currentJobIndex' = currentJobIndex
             /\ filteredJobs' = filteredJobs
             /\ currentJob' = currentJob]_vars

\* C21 witness: a swipe on the second or a later listing has run phase 1, its
\* timer is pending and that listing is still the current item
C21_Witness ==
  /\ last.op = "swipe"
  /\ last.accepted
  /\ mounted
  /\ timers # <<>>
  /\ currentJobIndex > 0
  /\ currentJob # NoJob

\* C22: in every reachable state the Saved Set holds identifiers of listings
\* of the collection only
C22_SavedAreListings ==
  savedJobs \subseteq JobIds

\* C22 witness: a right swipe by key, run with the values of an earlier
\* render, has just added an id to the Saved Set
C22_Witness ==
  /\ last.op = "swipe"
  /\ last.direction = "right"
  /\ last.accepted
  /\ ~last.wasSaved
  /\ mounted
  /\ keyHandler # renderClosure
  /\ savedJobs # {}

====
